---- MODULE Spec2Model ----
(***************************************************************************)
(* Model of astroquery/legacysurvey/core.py: LegacySurveyClass.            *)
(*                                                                         *)
(* One region query is followed from the call of the generated sync        *)
(* method query_region through query_region_async (two brick-list          *)
(* fetches, the two scan loops, the choice of the tractor file, its        *)
(* download) to the value or exception the caller receives.                *)
(*                                                                         *)
(* Coordinates are fixed-point numbers with one decimal: the integer 17    *)
(* stands for 1.7 degrees.  Comparisons are exact and int() is the         *)
(* truncation IntPart.                                                     *)
(***************************************************************************)
EXTENDS Integers, Sequences, FiniteSets, TLC

(* Longest brick table the service returns in the model. *)
MaxLen == 2

(* data_release=9, the default of query_region_async. *)
DefaultRelease == 9

Releases == {DefaultRelease, DefaultRelease + 1}

(* Rows of a survey-bricks table: brickname, ra1, ra2, dec1, dec2. *)
Brick(name, ra1, ra2, dec1, dec2) ==
    [brickname |-> name, ra1 |-> ra1, ra2 |-> ra2, dec1 |-> dec1, dec2 |-> dec2]

Bricks ==
    { Brick("0001m002", 0, 10, -5, 5),
      Brick("0015p005", 10, 20, 0, 10),
      Brick("0427p005", 425, 435, 0, 10),
      Brick("1239p005", 1239, 1249, 0, 10) }

(* Query points (ra, dec): inside one box, on the shared edge of two boxes, *)
(* inside the others, and outside every box.                                *)
Points ==
    { <<5, 0>>, <<10, 0>>, <<15, 5>>, <<430, 5>>, <<1240, 5>>, <<50, 0>> }

RECURSIVE SeqsUpTo(_)
SeqsUpTo(n) ==
    IF n = 0 THEN { <<>> }
    ELSE LET shorter == SeqsUpTo(n - 1)
         IN  shorter \cup
             { Append(s, b) : s \in { t \in shorter : Len(t) = n - 1 },
                              b \in Bricks }

(* A brick table has one row per brickname. *)
Catalogs ==
    { s \in SeqsUpTo(MaxLen) :
        \A j, k \in 1..Len(s) : s[j] = s[k] => j = k }

(***************************************************************************)
(* Python values.  Every value carries its type; values of different types *)
(* have different fields and are told apart by .type.                      *)
(***************************************************************************)
None == [type |-> "NoneType"]

(* dict(): the request payload, which nothing fills in. *)
EmptyDict == [type |-> "dict"]

(* requests.Response: the URL it answers and its content.  body is "fits"  *)
(* when the content decodes to a table (data) and "garbled" when decoding  *)
(* it raises ValueError.                                                   *)
Response(url, body, data) ==
    [type |-> "Response", url |-> url, body |-> body, data |-> data]

(* astropy.table.Table read from the content of url. *)
Table(url, rows) == [type |-> "Table", source |-> url, rows |-> rows]

(* astropy.table.Row: a table's row at an index. *)
Row(table, i) == [type |-> "Row", index |-> i, rec |-> table.rows[i]]

(* How a call ends, and the GETs it issued. *)
Return(v, gets) == [kind |-> "return", value |-> v, exc |-> "", gets |-> gets]
Raise(e, gets) == [kind |-> "raise", value |-> None, exc |-> e, gets |-> gets]
Pending == [kind |-> "pending", value |-> None, exc |-> "", gets |-> << >>]

(* What the network does to one GET: the transport fails, or a response    *)
(* arrives whose content decodes or does not.                              *)
NetOutcomes == {"error", "fits", "garbled"}

VARIABLES
    north, south,          \* the brick tables the service holds
    pc,                    \* position in query_region_async
    ra, dec,               \* coordinates.ra.deg, coordinates.dec.deg
    data_release,
    get_query_payload,
    table_north, table_south,
    it,                    \* the running for loop's iterator: next index
    examined,              \* loop bodies executed, per table
    row_north, row_south,
    fetches,               \* the HTTP GETs issued, in order
    response,              \* what query_region_async returned
    raised,                \* the exception that ended query_region_async
    result                 \* what query_region gave its caller

vars == << north, south, pc, ra, dec, data_release, get_query_payload,
           table_north, table_south, it, examined, row_north, row_south,
           fetches, response, raised, result >>


(***************************************************************************)
(* Pure parts of the code.                                                 *)
(***************************************************************************)

(* int(x) of a float: truncation toward zero. *)
IntPart(x) == IF x >= 0 THEN x \div 10 ELSE -((-x) \div 10)

DigitChars == << "0", "1", "2", "3", "4", "5", "6", "7", "8", "9" >>

(* The decimal digits of a natural number, most significant first. *)
RECURSIVE Str(_)
Str(n) ==
    IF n < 10 THEN << DigitChars[n + 1] >>
    ELSE Append(Str(n \div 10), DigitChars[(n % 10) + 1])

(* s with zeros in front until it is w characters long. *)
RECURSIVE ZFill(_, _)
ZFill(s, w) == IF Len(s) >= w THEN s ELSE ZFill(<< "0" >> \o s, w)

(* Format03 with the width mistyped: "{0:02}".format(n). *)
Format03_Width2(n) ==
    IF n < 0 THEN << "-" >> \o ZFill(Str(-n), 1) ELSE ZFill(Str(n), 2)

(* "{0:03}".format(n): sign-aware zero padding to a minimum width of 3. *)
Format03(n) ==
    IF n < 0 THEN << "-" >> \o ZFill(Str(-n), 2) ELSE ZFill(Str(n), 3)

(* {URL}/dr{data_release}/{emisphere}/survey-bricks-dr{data_release}-{emisphere}.fits.gz *)
BrickListURL(release, emisphere) ==
    [file |-> "survey-bricks", release |-> release, hemisphere |-> emisphere,
     dir |-> << >>, brickname |-> ""]

(* TractorURL with the north branch's URL pasted into the south branch. *)
TractorURL_NorthOnly(release, hemisphere, row) ==
    [file |-> "tractor", release |-> release, hemisphere |-> "north",
     dir |-> Format03(IntPart(row.rec.ra1)), brickname |-> row.rec.brickname]

(* {URL}/dr{data_release}/{hemisphere}/tractor/{raIntPart}/tractor-{brickname}.fits *)
TractorURL(release, hemisphere, row) ==
    [file |-> "tractor", release |-> release, hemisphere |-> hemisphere,
     dir |-> Format03(IntPart(row.rec.ra1)), brickname |-> row.rec.brickname]

(* requests.get(URL) under network outcome o; data is what the service     *)
(* holds at the URL.                                                       *)
RequestsGet(url, o, data) ==
    IF o = "error" THEN Raise("ConnectionError", << url >>)
    ELSE Return(Response(url, o, IF o = "fits" THEN data ELSE << >>), << url >>)

(* The brick table the service holds for a hemisphere. *)
ServerTable(emisphere) == IF emisphere = "north" THEN north ELSE south

(* QueryBrickListAsync issuing the request twice: through self._request,  *)
(* left in, and through requests.get.                                      *)
QueryBrickListAsync_BothRequests(release, gqp, emisphere, o) ==
    IF gqp THEN Return(EmptyDict, << >>)
    ELSE LET r == RequestsGet(BrickListURL(release, emisphere), o,
                              ServerTable(emisphere))
         IN  IF r.kind = "raise" THEN r ELSE [r EXCEPT !.gets = @ \o @]

QueryBrickListAsync(release, gqp, emisphere, o) ==
    IF gqp THEN Return(EmptyDict, << >>)
    ELSE RequestsGet(BrickListURL(release, emisphere), o, ServerTable(emisphere))

(* _parse_result: response.content of a non-response raises                *)
(* AttributeError; a ValueError of Table.read is passed over and the       *)
(* return of the unassigned local raises UnboundLocalError.                *)
ParseResult(resp) ==
    IF resp.type # "Response" THEN Raise("AttributeError", << >>)
    ELSE IF resp.body = "fits"
         THEN Return(Table(resp.url, resp.data), << >>)
         ELSE Raise("UnboundLocalError", << >>)

(* The sync method generated from an _async method, applied to how the     *)
(* _async call ended.                                                      *)
AsyncToSync(r, gqp) ==
    IF r.kind = "raise" \/ gqp THEN r
    ELSE LET p == ParseResult(r.value) IN [p EXCEPT !.gets = r.gets]

QueryBrickList(release, emisphere, o) ==
    AsyncToSync(QueryBrickListAsync(release, FALSE, emisphere, o), FALSE)

(* Matches with the bounds excluded. *)
Matches_Strict(r, p_ra, p_dec) ==
    /\ r.ra1 < p_ra /\ p_ra < r.ra2
    /\ r.dec1 < p_dec /\ p_dec < r.dec2

(* Matches without the test of the right ascension. *)
Matches_DecOnly(r, p_ra, p_dec) ==
    r.dec1 <= p_dec /\ p_dec <= r.dec2

(* ra1 <= ra <= ra2 and dec1 <= dec <= dec2 *)
Matches(r, p_ra, p_dec) ==
    /\ r.ra1 <= p_ra /\ p_ra <= r.ra2
    /\ r.dec1 <= p_dec /\ p_dec <= r.dec2

(* ScanStep without the break: the loop runs on after a match. *)
ScanStep_NoBreak(table, i, row, p_ra, p_dec) ==
    IF Matches(table.rows[i], p_ra, p_dec)
    THEN [row |-> Row(table, i), brk |-> FALSE]
    ELSE [row |-> row, brk |-> FALSE]

(* One pass through the body of a scan loop: the row variable afterwards   *)
(* and whether the loop was left by break.                                 *)
ScanStep(table, i, row, p_ra, p_dec) ==
    IF Matches(table.rows[i], p_ra, p_dec)
    THEN [row |-> Row(table, i), brk |-> TRUE]
    ELSE [row |-> row, brk |-> FALSE]

(* Select with the two tests in the other order. *)
Select_SouthFirst(rn, rs) ==
    IF rs.type # "NoneType" THEN "south"
    ELSE IF rn.type # "NoneType" THEN "north"
    ELSE "none"

(* The branch taken after the loops. *)
Select(rn, rs) ==
    IF rn.type # "NoneType" THEN "north"
    ELSE IF rs.type # "NoneType" THEN "south"
    ELSE "none"

(***************************************************************************)
(* The state machine.                                                      *)
(***************************************************************************)

Init ==
    /\ north \in Catalogs
    /\ south \in Catalogs
    /\ \E p \in Points : ra = p[1] /\ dec = p[2]
    /\ data_release \in Releases
    /\ get_query_payload \in BOOLEAN
    /\ pc = "START"
    /\ table_north = None
    /\ table_south = None
    /\ it = 1
    /\ examined = [north |-> 0, south |-> 0]
    /\ row_north = None
    /\ row_south = None
    /\ fetches = << >>
    /\ response = None
    /\ raised = ""
    /\ result = Pending

inputs == << north, south, ra, dec, data_release, get_query_payload >>

(* query_region calls query_region_async. *)
Enter ==
    /\ pc = "START"
    /\ pc' = "FETCH_NORTH_CATALOG"
    /\ UNCHANGED << inputs, table_north, table_south, it, examined,
                    row_north, row_south, fetches, response, raised, result >>

(* table_north = self.query_brick_list(..., emisphere="north") *)
FetchNorthCatalog ==
    /\ pc = "FETCH_NORTH_CATALOG"
    /\ \E o \in NetOutcomes :
         LET r == QueryBrickList(data_release, "north", o) IN
         /\ fetches' = fetches \o r.gets
         /\ IF r.kind = "return"
            THEN /\ table_north' = r.value
                 /\ pc' = "FETCH_SOUTH_CATALOG"
                 /\ raised' = raised
            ELSE /\ raised' = r.exc
                 /\ pc' = "RAISED"
                 /\ table_north' = table_north
    /\ UNCHANGED << inputs, table_south, it, examined, row_north, row_south,
                    response, result >>

(* table_south = self.query_brick_list(..., emisphere="south"), then the   *)
(* locals are set up.                                                      *)
FetchSouthCatalog ==
    /\ pc = "FETCH_SOUTH_CATALOG"
    /\ \E o \in NetOutcomes :
         LET r == QueryBrickList(data_release, "south", o) IN
         /\ fetches' = fetches \o r.gets
         /\ IF r.kind = "return"
            THEN /\ table_south' = r.value
                 /\ pc' = "SCAN_NORTH"
                 /\ raised' = raised
            ELSE /\ raised' = r.exc
                 /\ pc' = "RAISED"
                 /\ table_south' = table_south
    /\ it' = 1
    /\ row_north' = None
    /\ row_south' = None
    /\ response' = None
    /\ UNCHANGED << inputs, table_north, examined, result >>

(* for r in table_north: one iteration. *)
ScanNorthStep ==
    /\ pc = "SCAN_NORTH"
    /\ it <= Len(table_north.rows)
    /\ LET s == ScanStep(table_north, it, row_north, ra, dec) IN
         /\ row_north' = s.row
         /\ IF s.brk THEN pc' = "SCAN_SOUTH" /\ it' = 1
                     ELSE pc' = pc /\ it' = it + 1
    /\ examined' = [examined EXCEPT !.north = @ + 1]
    /\ UNCHANGED << inputs, table_north, table_south, row_south, fetches,
                    response, raised, result >>

(* for r in table_north: the table is exhausted. *)
ScanNorthEnd ==
    /\ pc = "SCAN_NORTH"
    /\ it > Len(table_north.rows)
    /\ pc' = "SCAN_SOUTH"
    /\ it' = 1
    /\ UNCHANGED << inputs, table_north, table_south, examined, row_north,
                    row_south, fetches, response, raised, result >>

(* for r in table_south: one iteration. *)
ScanSouthStep ==
    /\ pc = "SCAN_SOUTH"
    /\ it <= Len(table_south.rows)
    /\ LET s == ScanStep(table_south, it, row_south, ra, dec) IN
         /\ row_south' = s.row
         /\ IF s.brk THEN pc' = "SELECT" /\ it' = 1
                     ELSE pc' = pc /\ it' = it + 1
    /\ examined' = [examined EXCEPT !.south = @ + 1]
    /\ UNCHANGED << inputs, table_north, table_south, row_north, fetches,
                    response, raised, result >>

(* for r in table_south: the table is exhausted. *)
ScanSouthEnd ==
    /\ pc = "SCAN_SOUTH"
    /\ it > Len(table_south.rows)
    /\ pc' = "SELECT"
    /\ it' = 1
    /\ UNCHANGED << inputs, table_north, table_south, examined, row_north,
                    row_south, fetches, response, raised, result >>

(* The GET of a tractor file and the return of its response. *)
GetTractor(url) ==
    \E o \in NetOutcomes :
        LET r == RequestsGet(url, o, << >>) IN
        /\ fetches' = fetches \o r.gets
        /\ IF r.kind = "return"
           THEN response' = r.value /\ pc' = "DONE" /\ raised' = raised
           ELSE response' = response /\ pc' = "RAISED" /\ raised' = r.exc

(* if row_north is not None: ... return response_north *)
FetchNorthResource ==
    /\ pc = "SELECT"
    /\ Select(row_north, row_south) = "north"
    /\ GetTractor(TractorURL(data_release, "north", row_north))
    /\ UNCHANGED << inputs, table_north, table_south, it, examined,
                    row_north, row_south, result >>

(* if row_south is not None: ... return response_south *)
FetchSouthResource ==
    /\ pc = "SELECT"
    /\ Select(row_north, row_south) = "south"
    /\ GetTractor(TractorURL(data_release, "south", row_south))
    /\ UNCHANGED << inputs, table_north, table_south, it, examined,
                    row_north, row_south, result >>

(* return None *)
ReturnNone ==
    /\ pc = "SELECT"
    /\ Select(row_north, row_south) = "none"
    /\ pc' = "DONE_EMPTY"
    /\ response' = None
    /\ UNCHANGED << inputs, table_north, table_south, it, examined,
                    row_north, row_south, fetches, raised, result >>

AsyncEnded == pc \in {"DONE", "DONE_EMPTY", "RAISED"}

(* How query_region_async ended. *)
AsyncOutcome ==
    IF pc = "RAISED" THEN Raise(raised, fetches) ELSE Return(response, fetches)

(* query_region hands its caller the payload, the parsed table or the      *)
(* exception.                                                              *)
QueryRegionReturn ==
    /\ AsyncEnded
    /\ result.kind = "pending"
    /\ result' = AsyncToSync(AsyncOutcome, get_query_payload)
    /\ UNCHANGED << inputs, pc, table_north, table_south, it, examined,
                    row_north, row_south, fetches, response, raised >>

Next ==
    \/ Enter
    \/ FetchNorthCatalog
    \/ FetchSouthCatalog
    \/ ScanNorthStep
    \/ ScanNorthEnd
    \/ ScanSouthStep
    \/ ScanSouthEnd
    \/ FetchNorthResource
    \/ FetchSouthResource
    \/ ReturnNone
    \/ QueryRegionReturn

Spec == Init /\ [][Next]_vars

(* The calls are sequential and blocking: a step that can be taken is taken. *)
FairSpec == Spec /\ WF_vars(Next)

(***************************************************************************)
(* Vocabulary of the properties, stated without the operators above.       *)
(***************************************************************************)

(* The query point lies in the record's box, bounds included. *)
InBox(r) ==
    /\ ~(ra < r.ra1) /\ ~(ra > r.ra2)
    /\ ~(dec < r.dec1) /\ ~(dec > r.dec2)

Hits(rows) == { k \in 1..Len(rows) : InBox(rows[k]) }

(* The lowest index of a record holding the point. *)
FirstIndex(rows) == CHOOSE k \in Hits(rows) : \A j \in Hits(rows) : k <= j

InNorth == Hits(north) # {}
InSouth == Hits(south) # {}

(* The whole degrees n of a right ascension x: n <= x < n + 1. *)
WholeDegrees(x) == CHOOSE n \in 0..360 : 10 * n <= x /\ x < 10 * (n + 1)

(* Exactly three digits: hundreds, tens, units. *)
ThreeDigits(n) ==
    << DigitChars[((n \div 100) % 10) + 1],
       DigitChars[((n \div 10) % 10) + 1],
       DigitChars[(n % 10) + 1] >>

(* {base_url}/dr{data_release}/{h}/tractor/{p}/tractor-{brickname}.fits *)
ExpectedURL(h, rec) ==
    [file |-> "tractor", release |-> data_release, hemisphere |-> h,
     dir |-> ThreeDigits(WholeDegrees(rec.ra1)), brickname |-> rec.brickname]

TractorFetches == { k \in 1..Len(fetches) : fetches[k].file = "tractor" }

CatalogsFetched == table_north.type = "Table" /\ table_south.type = "Table"

NorthScanned ==
    \/ pc \in {"SCAN_SOUTH", "SELECT", "DONE", "DONE_EMPTY"}
    \/ pc = "RAISED" /\ CatalogsFetched

SouthScanned ==
    \/ pc \in {"SELECT", "DONE", "DONE_EMPTY"}
    \/ pc = "RAISED" /\ CatalogsFetched

(***************************************************************************)
(* C1: when the query point lies in a box of the north catalog, the only   *)
(* tractor file fetched, and the response returned, is the one of the      *)
(* matched north record (hemisphere north, its brickname, its ra1),        *)
(* whatever the south catalog holds.                                       *)
(***************************************************************************)
C1_NorthWins ==
    InNorth =>
        LET want == ExpectedURL("north", north[FirstIndex(north)]) IN
        /\ pc # "DONE_EMPTY"
        /\ \A k \in TractorFetches : fetches[k] = want
        /\ pc = "DONE" =>
             /\ response.type = "Response"
             /\ response.url = want
             /\ fetches[Len(fetches)] = want

C1_Witness ==
    /\ pc = "DONE"
    /\ InNorth /\ InSouth
    /\ south[FirstIndex(south)] # north[FirstIndex(north)]

C3_NoMatchNoFetch ==
    (~InNorth /\ ~InSouth) =>
        /\ TractorFetches = {}
        /\ pc # "DONE"
        /\ pc = "RAISED" => ~CatalogsFetched
        /\ pc = "DONE_EMPTY" => response = None /\ raised = ""
        /\ pc = "SELECT" => row_north = None /\ row_south = None

C3_Witness ==
    /\ pc = "DONE_EMPTY"
    /\ Len(north) > 0
    /\ Len(south) > 0
    /\ Len(fetches) = 2

(***************************************************************************)
(* C4: query_region signals absence with a null or empty result, and does  *)
(* not raise, when neither catalog holds the query point.                  *)
(***************************************************************************)
C4_AbsenceNotRaised ==
    (pc = "DONE_EMPTY" /\ result.kind # "pending") => result.kind = "return"

(***************************************************************************)
(* C5: when the query point lies in no box of the north catalog and in a   *)
(* box of the south catalog, the tractor file fetched and returned is the  *)
(* one of the matched south record, and no north tractor file is fetched.  *)
(***************************************************************************)
C5_SouthFallback ==
    (~InNorth /\ InSouth) =>
        LET want == ExpectedURL("south", south[FirstIndex(south)]) IN
        /\ pc # "DONE_EMPTY"
        /\ \A k \in TractorFetches :
             fetches[k] = want /\ fetches[k].hemisphere # "north"
        /\ pc = "DONE" =>
             /\ response.type = "Response"
             /\ response.url = want
             /\ fetches[Len(fetches)] = want

C5_Witness ==
    /\ pc = "DONE"
    /\ ~InNorth /\ InSouth
    /\ Len(north) > 0
    /\ response.url.hemisphere = "south"

(***************************************************************************)
(* C6: the record a scan selects is the lowest-index record of the catalog *)
(* whose box holds the point, bounds included; a record is selected if and *)
(* only if some record holds the point.                                    *)
(***************************************************************************)
C6_FirstMatch ==
    /\ NorthScanned =>
         IF InNorth
         THEN /\ row_north.type = "Row"
              /\ row_north.index = FirstIndex(north)
              /\ row_north.rec = north[FirstIndex(north)]
         ELSE row_north = None
    /\ SouthScanned =>
         IF InSouth
         THEN /\ row_south.type = "Row"
              /\ row_south.index = FirstIndex(south)
              /\ row_south.rec = south[FirstIndex(south)]
         ELSE row_south = None

(* Two overlapping records hold the point, which lies on an edge of both. *)
C6_Witness ==
    /\ pc = "SELECT"
    /\ Cardinality(Hits(north)) = 2
    /\ row_north.type = "Row"
    /\ row_north.index = 1
    /\ ra = row_north.rec.ra2

(***************************************************************************)
(* C7: every tractor URL is built from data_release, the hemisphere and    *)
(* the matched record: its directory is the integer part of ra1 padded to  *)
(* exactly 3 digits, and its data release is that of the catalog fetches   *)
(* of the call.                                                            *)
(***************************************************************************)
C7_Identifier ==
    \A k \in TractorFetches :
        LET h   == IF row_north.type = "Row" THEN "north" ELSE "south"
            row == IF row_north.type = "Row" THEN row_north ELSE row_south
        IN  /\ row.type = "Row"
            /\ fetches[k] = ExpectedURL(h, row.rec)
            /\ Len(fetches[k].dir) = 3
            /\ \A j \in 1..Len(fetches) : fetches[j].release = fetches[k].release

(* An integer part of two digits, padded with one zero. *)
C7_Witness ==
    /\ pc = "DONE"
    /\ response.url.dir = << "0", "4", "2" >>
    /\ data_release # DefaultRelease

(***************************************************************************)
(* C8: with get_query_payload=True query_region_async returns the dict of  *)
(* request parameters and fetches nothing.                                 *)
(***************************************************************************)
C8_PayloadOnly ==
    get_query_payload =>
        /\ fetches = << >>
        /\ pc # "RAISED"
        /\ pc \in {"DONE", "DONE_EMPTY"} => response.type = "dict"

(***************************************************************************)
(* C9: when decoding the response raises ValueError, _parse_result hands   *)
(* back the raw result; it does not end in another error.                  *)
(***************************************************************************)
C9_ParseErrorInformative ==
    ( /\ pc = "DONE"
      /\ ~get_query_payload
      /\ response.body = "garbled"
      /\ result.kind # "pending" ) =>
        /\ result.kind = "return"
        /\ result.value.type = "Response"
        /\ result.value = response

(***************************************************************************)
(* C10: a region query walks START, FETCH_NORTH_CATALOG,                   *)
(* FETCH_SOUTH_CATALOG, the scans, then the resource fetch and DONE, or    *)
(* DONE_EMPTY, without going back; the tractor file is fetched only after  *)
(* both catalogs were fetched and a match was found; at most one tractor   *)
(* fetch and three fetches are issued and none twice; and the query ends,  *)
(* in DONE or DONE_EMPTY unless a fetch did not return.                    *)
(***************************************************************************)
PathEdges ==
    { << "START", "FETCH_NORTH_CATALOG" >>,
      << "FETCH_NORTH_CATALOG", "FETCH_SOUTH_CATALOG" >>,
      << "FETCH_NORTH_CATALOG", "RAISED" >>,
      << "FETCH_SOUTH_CATALOG", "SCAN_NORTH" >>,
      << "FETCH_SOUTH_CATALOG", "RAISED" >>,
      << "SCAN_NORTH", "SCAN_SOUTH" >>,
      << "SCAN_SOUTH", "SELECT" >>,
      << "SELECT", "DONE" >>,
      << "SELECT", "DONE_EMPTY" >>,
      << "SELECT", "RAISED" >> }

FetchDiscipline ==
    /\ Len(fetches) <= 3
    /\ \A j, k \in 1..Len(fetches) : fetches[j] = fetches[k] => j = k
    /\ Cardinality(TractorFetches) <= 1
    /\ \A k \in TractorFetches :
         /\ k = 3
         /\ fetches[1].file = "survey-bricks" /\ fetches[1].hemisphere = "north"
         /\ fetches[2].file = "survey-bricks" /\ fetches[2].hemisphere = "south"
         /\ CatalogsFetched
         /\ row_north.type = "Row" \/ row_south.type = "Row"
         /\ pc \in {"DONE", "RAISED"}

AFetchFailed ==
    \/ table_north = None
    \/ table_south = None
    \/ TractorFetches # {} /\ response = None

C10_Path ==
    /\ []FetchDiscipline
    /\ [][pc' # pc => << pc, pc' >> \in PathEdges]_vars
    /\ [](pc = "RAISED" => AFetchFailed)
    /\ <>AsyncEnded

C10_Witness ==
    /\ pc = "DONE"
    /\ Len(fetches) = 3
    /\ examined.north > 0
    /\ examined.south > 0

====
